---- MODULE Spec2Model ----
(***************************************************************************)
(* cmdtree: a tree of classes and actions assembled by a Builder, wrapped  *)
(* into a Commander, and navigated line by line with parse_line.           *)
(*                                                                         *)
(* Strings are sequences of one-character strings, so that lower-casing,   *)
(* trimming, splitting and path formatting are computed as the code        *)
(* computes them.  A pointer into the tree (Commander.current) is the      *)
(* sequence of child indices leading from the root to the class: every     *)
(* SubClass is owned by exactly one parent vector, so index paths and      *)
(* pointers correspond one to one.                                         *)
(***************************************************************************)
EXTENDS Integers, Sequences, FiniteSets, TLC

\* ------------------------------------------------------------------ bounds

\* Largest number of classes and actions below the root the Builder is
\* driven to create.
MaxNodes == 2

\* All lines of up to this many words from WordInputs are given to parse_line
\* (besides RawLines and LongLines).
MaxWords == 2

\* ----------------------------------------------------------------- strings

\* ASCII part of char::to_lowercase.
LowerMap ==
    [A |-> "a", B |-> "b", C |-> "c", D |-> "d", E |-> "e", F |-> "f",
     G |-> "g", H |-> "h", I |-> "i", J |-> "j", K |-> "k", L |-> "l",
     M |-> "m", N |-> "n", O |-> "o", P |-> "p", Q |-> "q", R |-> "r",
     S |-> "s", T |-> "t", U |-> "u", V |-> "v", W |-> "w", X |-> "x",
     Y |-> "y", Z |-> "z"]

\* str::to_lowercase
to_lowercase(s) ==
    [i \in 1..Len(s) |-> IF s[i] \in DOMAIN LowerMap THEN LowerMap[s[i]] ELSE s[i]]

\* str::replace(c, ""): every occurrence of the character c removed.
RECURSIVE replace_char(_, _)
replace_char(s, c) ==
    IF s = <<>> THEN <<>>
    ELSE IF Head(s) = c THEN replace_char(Tail(s), c)
    ELSE <<Head(s)>> \o replace_char(Tail(s), c)

\* The white space str::trim removes (the ASCII part of White_Space).
WhiteSpace == {" ", "\t", "\n", "\r"}

RECURSIVE trim_start(_)
trim_start(s) ==
    IF s # <<>> /\ Head(s) \in WhiteSpace THEN trim_start(Tail(s)) ELSE s

RECURSIVE trim_end(_)
trim_end(s) ==
    IF s # <<>> /\ s[Len(s)] \in WhiteSpace
    THEN trim_end(SubSeq(s, 1, Len(s) - 1)) ELSE s

trim(s) == trim_end(trim_start(s))

\* str::split(' '): the pieces between single spaces; n spaces give n + 1
\* pieces, so the empty string gives one empty piece.
RECURSIVE split_acc(_, _)
split_acc(s, piece) ==
    IF s = <<>> THEN <<piece>>
    ELSE IF Head(s) = " " THEN <<piece>> \o split_acc(Tail(s), <<>>)
    ELSE split_acc(Tail(s), Append(piece, Head(s)))

split_space(s) == split_acc(s, <<>>)

\* slice.join(" "), used to write the input lines of the model.
RECURSIVE join_space(_)
join_space(ws) ==
    IF ws = <<>> THEN <<>>
    ELSE IF Len(ws) = 1 THEN ws[1]
    ELSE ws[1] \o <<" ">> \o join_space(Tail(ws))

\* Whether sub occurs in s as a contiguous substring.
Contains(s, sub) ==
    \E i \in 0..(Len(s) - Len(sub)) : SubSeq(s, i + 1, i + Len(sub)) = sub

\* ------------------------------------------------------------------ inputs

\* Names given to Builder::new.
RootNames == { <<"A">>, <<"E", "x", "i", "t">> }

\* Names given to begin_class and add_action.
NameInputs ==
    { <<"a">>, <<"A">>, <<>>, <<"C">>, <<"H", "e", "l", "p">>,
      <<"e", "x", "i", "t">>, <<"c", "a", "n", "c", "e", "l">> }

\* Help messages given to begin_class and add_action (opaque texts).
RootHelp == "base class of commander tree"
HelpInputs == { RootHelp }

\* The closure given to every add_action: it returns the number of arguments
\* it was called with (the type parameter R is usize).
closure(arguments) == Len(arguments)

\* -------------------------------------------------------------------- tree

\* SubClass::with_name
with_name(name, help_msg) ==
    [name |-> to_lowercase(name), help |-> help_msg,
     classes |-> <<>>, actions |-> <<>>]

\* The Action pushed by add_action (the closure is kept apart, see calls).
new_action(name, help_msg) ==
    [name |-> to_lowercase(name), help |-> help_msg]

ReservedWords ==
    { <<"h", "e", "l", "p">>, <<"c", "a", "n", "c", "e", "l">>, <<"c">>,
      <<"e", "x", "i", "t">> }

\* The class reached from sc by the child indices pos.
RECURSIVE SubAt(_, _)
SubAt(sc, pos) ==
    IF pos = <<>> THEN sc ELSE SubAt(sc.classes[Head(pos)], Tail(pos))

\* The index paths of all classes of the tree rooted at sc (sc itself is <<>>).
RECURSIVE Positions(_)
Positions(sc) ==
    { <<>> } \cup
    UNION { { <<i>> \o p : p \in Positions(sc.classes[i]) } :
            i \in 1..Len(sc.classes) }

\* Number of classes and actions below sc.
RECURSIVE NodeCount(_)
RECURSIVE NodeCountSeq(_)
NodeCount(sc) == Len(sc.actions) + NodeCountSeq(sc.classes)
NodeCountSeq(cs) ==
    IF cs = <<>> THEN 0 ELSE 1 + NodeCount(Head(cs)) + NodeCountSeq(Tail(cs))

\* ----------------------------------------------------------------- builder

NoClass == [name |-> <<>>, help |-> "", classes |-> <<>>, actions |-> <<>>]

\* BuilderResult: Ok(Builder { parents, current }) or Err(BuildError).
Ok(parents, current) == [err |-> "None", parents |-> parents, current |-> current]
Err(e) == [err |-> e, parents |-> <<>>, current |-> NoClass]

\* The chain after into_commander has taken it by value.
Moved == Err("Moved")

\* Builder::new / Builder::default_config
new(root_name) == Ok(<<>>, with_name(root_name, RootHelp))

check_names_skips_classes(name, subclass) ==
    LET lwr == to_lowercase(name) IN
    IF \/ lwr \in ReservedWords
       \/ \E i \in 1..Len(subclass.actions) : subclass.actions[i].name = lwr
    THEN "NameExistsAsAction"
    ELSE "Ok"

check_names_allows_exit(name, subclass) ==
    LET lwr == to_lowercase(name) IN
    IF \/ lwr \in ReservedWords \ { <<"e", "x", "i", "t">> }
       \/ \E i \in 1..Len(subclass.actions) : subclass.actions[i].name = lwr
    THEN "NameExistsAsAction"
    ELSE IF \E i \in 1..Len(subclass.classes) : subclass.classes[i].name = lwr
    THEN "NameExistsAsClass"
    ELSE "Ok"

check_names_case_sensitive(name, subclass) ==
    IF \/ to_lowercase(name) \in ReservedWords
       \/ \E i \in 1..Len(subclass.actions) : subclass.actions[i].name = name
    THEN "NameExistsAsAction"
    ELSE IF \E i \in 1..Len(subclass.classes) : subclass.classes[i].name = name
    THEN "NameExistsAsClass"
    ELSE "Ok"

check_names_own_name(name, subclass) ==
    LET lwr == to_lowercase(name) IN
    IF \/ lwr \in ReservedWords
       \/ lwr = subclass.name
       \/ \E i \in 1..Len(subclass.actions) : subclass.actions[i].name = lwr
    THEN "NameExistsAsAction"
    ELSE IF \E i \in 1..Len(subclass.classes) : subclass.classes[i].name = lwr
    THEN "NameExistsAsClass"
    ELSE "Ok"

\* check_names: "Ok" or the BuildError.
check_names(name, subclass) ==
    LET lwr == to_lowercase(name) IN
    IF \/ lwr = <<"h", "e", "l", "p">>
       \/ lwr = <<"c", "a", "n", "c", "e", "l">>
       \/ lwr = <<"c">>
       \/ lwr = <<"e", "x", "i", "t">>
       \/ \E i \in 1..Len(subclass.actions) : subclass.actions[i].name = lwr
    THEN "NameExistsAsAction"
    ELSE IF \E i \in 1..Len(subclass.classes) : subclass.classes[i].name = lwr
    THEN "NameExistsAsClass"
    ELSE "Ok"

\* impl BuilderChain for Builder
begin_class(b, name, help_msg) ==
    IF check_names(name, b.current) = "Ok"
    THEN Ok(Append(b.parents, b.current), with_name(name, help_msg))
    ELSE Err(check_names(name, b.current))

end_class_prepends(b) ==
    IF b.parents = <<>> THEN Err("NoParent")
    ELSE LET parent == b.parents[Len(b.parents)] IN
         Ok(SubSeq(b.parents, 1, Len(b.parents) - 1),
            [parent EXCEPT !.classes = <<b.current>> \o @])

end_class(b) ==
    IF b.parents = <<>> THEN Err("NoParent")
    ELSE LET parent == b.parents[Len(b.parents)] IN
         Ok(SubSeq(b.parents, 1, Len(b.parents) - 1),
            [parent EXCEPT !.classes = Append(@, b.current)])

RECURSIVE root_stops_early(_)
root_stops_early(b) ==
    IF Len(b.parents) > 1 THEN root_stops_early(end_class(b)) ELSE b

RECURSIVE root(_)
root(b) == IF b.parents # <<>> THEN root(end_class(b)) ELSE b

\* The end_class calls the loop of root makes.
RECURSIVE root_calls(_)
root_calls(b) == IF b.parents # <<>> THEN 1 + root_calls(end_class(b)) ELSE 0

add_action(b, name, help_msg) ==
    IF check_names(name, b.current) = "Ok"
    THEN Ok(b.parents, [b.current EXCEPT !.actions = Append(@, new_action(name, help_msg))])
    ELSE Err(check_names(name, b.current))

\* Result<Commander, BuildError>
NoCommander == [err |-> "None", root |-> NoClass, current |-> <<>>, path |-> <<>>]

into_commander_skips_root(b) ==
    [err |-> "None", root |-> b.current, current |-> <<>>, path |-> b.current.name]

into_commander(b) ==
    LET rc == root(b).current IN
    [err |-> "None", root |-> rc, current |-> <<>>, path |-> rc.name]

\* impl BuilderChain for BuilderResult: `self?` passes an Err on unchanged.
chain_begin_class(br, name, help_msg) ==
    IF br.err # "None" THEN br ELSE begin_class(br, name, help_msg)
chain_end_class_own_error(br) ==
    IF br.err # "None" THEN Err("NoParent") ELSE end_class(br)
chain_end_class(br) == IF br.err # "None" THEN br ELSE end_class(br)
chain_root(br) == IF br.err # "None" THEN br ELSE root(br)
chain_add_action(br, name, help_msg) ==
    IF br.err # "None" THEN br ELSE add_action(br, name, help_msg)
chain_into_commander(br) ==
    IF br.err # "None" THEN [NoCommander EXCEPT !.err = br.err]
    ELSE into_commander(br)

\* Classes and actions created so far in all the scopes of a Builder.
RECURSIVE OpenCount(_)
OpenCount(ps) ==
    IF ps = <<>> THEN 0 ELSE 1 + NodeCount(Head(ps)) + OpenCount(Tail(ps))
BuilderNodes(br) == OpenCount(br.parents) + NodeCount(br.current)

\* --------------------------------------------------------------- commander

\* Commander::at_root: Arc<SubClass> equality compares the classes by value
\* (name, help, classes, actions).
at_root(self) == SubAt(self.root, self.current) = self.root

PATH_SEP == "."

parse_word_as_typed(subclass, word) ==
    LET cs == { i \in 1..Len(subclass.classes) : subclass.classes[i].name = word }
        as == { i \in 1..Len(subclass.actions) : subclass.actions[i].name = word }
        first(S) == CHOOSE i \in S : \A j \in S : i <= j
    IN  IF word = <<"h", "e", "l", "p">> THEN [kind |-> "Help", index |-> 0]
        ELSE IF word = <<"c", "a", "n", "c", "e", "l">> \/ word = <<"c">>
        THEN [kind |-> "Cancel", index |-> 0]
        ELSE IF word = <<"e", "x", "i", "t">> THEN [kind |-> "Exit", index |-> 0]
        ELSE IF cs # {} THEN [kind |-> "Class", index |-> first(cs)]
        ELSE IF as # {} THEN [kind |-> "Action", index |-> first(as)]
        ELSE [kind |-> "Unrecognized", index |-> 0]

\* parse_word: the WordResult for word at the class subclass; for Class and
\* Action, index is the place of the first match in the vector.
parse_word(subclass, word) ==
    LET lwr == to_lowercase(word)
        cs == { i \in 1..Len(subclass.classes) : subclass.classes[i].name = lwr }
        as == { i \in 1..Len(subclass.actions) : subclass.actions[i].name = lwr }
        first(S) == CHOOSE i \in S : \A j \in S : i <= j
    IN  IF lwr = <<"h", "e", "l", "p">> THEN [kind |-> "Help", index |-> 0]
        ELSE IF lwr = <<"c", "a", "n", "c", "e", "l">> \/ lwr = <<"c">>
        THEN [kind |-> "Cancel", index |-> 0]
        ELSE IF lwr = <<"e", "x", "i", "t">> THEN [kind |-> "Exit", index |-> 0]
        ELSE IF cs # {} THEN [kind |-> "Class", index |-> first(cs)]
        ELSE IF as # {} THEN [kind |-> "Action", index |-> first(as)]
        ELSE [kind |-> "Unrecognized", index |-> 0]

\* write_help / write_help_coloured: the lines written, each a sequence of
\* text pieces.
Yellow(s) == <<"ESC[93m">> \o s \o <<"ESC[0m">>
Purple(s) == <<"ESC[95m">> \o s \o <<"ESC[0m">>

write_help_actions_first(class) ==
    << <<"help -- prints the help messages">>,
       <<"cancel | c -- returns to the root class">>,
       <<"exit -- sends the exit signal to end the interactive loop">> >>
    \o (IF Len(class.actions) > 0
        THEN << <<"Actions:">> >> \o
             [i \in 1..Len(class.actions) |->
                <<"\t">> \o class.actions[i].name \o <<" -- ", class.actions[i].help>>]
        ELSE <<>>)
    \o (IF Len(class.classes) > 0
        THEN << <<"Classes:">> >> \o
             [i \in 1..Len(class.classes) |->
                <<"\t">> \o class.classes[i].name \o <<" -- ", class.classes[i].help>>]
        ELSE <<>>)

write_help(class) ==
    << <<"help -- prints the help messages">>,
       <<"cancel | c -- returns to the root class">>,
       <<"exit -- sends the exit signal to end the interactive loop">> >>
    \o (IF Len(class.classes) > 0
        THEN << <<"Classes:">> >> \o
             [i \in 1..Len(class.classes) |->
                <<"\t">> \o class.classes[i].name \o <<" -- ", class.classes[i].help>>]
        ELSE <<>>)
    \o (IF Len(class.actions) > 0
        THEN << <<"Actions:">> >> \o
             [i \in 1..Len(class.actions) |->
                <<"\t">> \o class.actions[i].name \o <<" -- ", class.actions[i].help>>]
        ELSE <<>>)

write_help_coloured(class) ==
    << Yellow(<<"help">>) \o <<" -- prints the help messages">>,
       Yellow(<<"cancel">>) \o <<" | ">> \o Yellow(<<"c">>)
          \o <<" -- returns to the root class">>,
       Yellow(<<"exit">>)
          \o <<" -- sends the exit signal to end the interactive loop">> >>
    \o (IF Len(class.classes) > 0
        THEN << Purple(<<"Classes:">>) >> \o
             [i \in 1..Len(class.classes) |->
                <<"\t">> \o Yellow(class.classes[i].name)
                    \o <<" -- ", class.classes[i].help>>]
        ELSE <<>>)
    \o (IF Len(class.actions) > 0
        THEN << Purple(<<"Actions:">> ) >> \o
             [i \in 1..Len(class.actions) |->
                <<"\t">> \o Yellow(class.actions[i].name)
                    \o <<" -- ", class.actions[i].help>>]
        ELSE <<>>)

unrecognized_msg_lowered(word, colourise) ==
    <<(IF colourise THEN "ESC[91m" ELSE "ESC[37m"), "'">> \o to_lowercase(word)
        \o <<"'", " does not match any keywords, classes, or actions", "ESC[0m">>

\* The line the Unrecognized arm writes.
unrecognized_msg(word, colourise) ==
    <<(IF colourise THEN "ESC[91m" ELSE "ESC[37m"), "'">> \o word
        \o <<"'", " does not match any keywords, classes, or actions", "ESC[0m">>

\* Action::call: the closure is called with the arguments.
call(arguments) == closure(arguments)

slice_from_word(words, idx) == SubSeq(words, idx, Len(words))

\* words[idx..]
slice_from(words, idx) == SubSeq(words, idx + 1, Len(words))

\* The arms of the match in parse_line, as what they leave in self.
help_arm(self, start_class, start_path) ==
    [self EXCEPT !.current = start_class, !.path = start_path]

cancel_arm_keeps_path(self) == [self EXCEPT !.current = <<>>]
cancel_arm_stays(self) == self

cancel_arm(self) ==
    [self EXCEPT !.current = <<>>, !.path = self.root.name]

exit_arm_clears_tree(self) ==
    [self EXCEPT !.root = with_name(self.root.name, self.root.help),
                 !.current = <<>>, !.path = self.root.name]

exit_arm(self) == self

class_arm_no_sep(self, index) ==
    LET sc == SubAt(self.root, self.current).classes[index] IN
    [self EXCEPT !.path = @ \o sc.name, !.current = Append(@, index)]

class_arm(self, index) ==
    LET sc == SubAt(self.root, self.current).classes[index] IN
    [self EXCEPT !.path = @ \o <<PATH_SEP>> \o sc.name,
                 !.current = Append(@, index)]

action_arm_stays(self, start_class, start_path) == self

action_arm(self, start_class, start_path) ==
    [self EXCEPT !.current = start_class, !.path = start_path]

unrecognized_arm(self, start_class, start_path) ==
    [self EXCEPT !.current = start_class, !.path = start_path]

\* What a parse_line call leaves behind: the Commander, the LineResult, the
\* lines written, the closures called and the number of words taken.
LineOutcome(self, res, r, out, called, idx) ==
    [cmdr |-> self, result |-> [kind |-> res, r |-> r], writer |-> out,
     calls |-> called, idx |-> idx]

\* The while loop of parse_line: self is the Commander as the loop has
\* changed it so far, idx the number of words already taken.
RECURSIVE parse_loop(_, _, _, _, _, _)
parse_loop(self, words, idx, start_class, start_path, colourise) ==
    IF idx >= Len(words) THEN LineOutcome(self, "Class", <<>>, <<>>, <<>>, idx)
    ELSE
    LET word == words[idx + 1]
        class == SubAt(self.root, self.current)
        wr == parse_word(class, word)
    IN  CASE wr.kind = "Help" ->
               LineOutcome(help_arm(self, start_class, start_path), "Help", <<>>,
                           IF colourise THEN write_help_coloured(class)
                           ELSE write_help(class),
                           <<>>, idx + 1)
          [] wr.kind = "Cancel" ->
               LineOutcome(cancel_arm(self), "Cancel", <<>>, <<>>, <<>>, idx + 1)
          [] wr.kind = "Exit" ->
               LineOutcome(exit_arm(self), "Exit", <<>>, <<>>, <<>>, idx + 1)
          [] wr.kind = "Class" ->
               parse_loop(class_arm(self, wr.index), words, idx + 1,
                          start_class, start_path, colourise)
          [] wr.kind = "Action" ->
               LET slice == slice_from(words, idx + 1)
                   r == call(slice)
               IN  LineOutcome(action_arm(self, start_class, start_path),
                               "Action", <<r>>, <<>>,
                               << [owner |-> self.current, action |-> wr.index,
                                   arguments |-> slice, returned |-> r] >>,
                               idx + 1)
          [] wr.kind = "Unrecognized" ->
               LineOutcome(unrecognized_arm(self, start_class, start_path),
                           "Unrecognized", <<>>,
                           << unrecognized_msg(word, colourise) >>, <<>>, idx + 1)

\* The words parse_line splits a line into.
line_words(line) == split_space(trim(replace_char(replace_char(line, "\n"), "\r")))

parse_line_coloured_stays(self, line, colourise) ==
    LET ws == line_words(line)
        o == parse_loop(self, ws, 0, self.current, self.path, colourise)
    IN  IF colourise /\ o.result.kind = "Unrecognized"
        THEN [o EXCEPT !.cmdr =
                parse_loop(self, SubSeq(ws, 1, o.idx - 1), 0, self.current,
                           self.path, colourise).cmdr]
        ELSE o

parse_line_skips_unknown(self, line, colourise) ==
    LET ws == line_words(line)
        o == parse_loop(self, ws, 0, self.current, self.path, colourise)
    IN  IF o.result.kind = "Unrecognized" /\ o.idx < Len(ws)
        THEN parse_loop(o.cmdr, ws, o.idx, self.current, self.path, colourise)
        ELSE o

\* Commander::parse_line
parse_line(self, line, colourise) ==
    parse_loop(self, line_words(line), 0, self.current, self.path, colourise)

\* --------------------------------------------------------------- structure

\* The bytes of the characters names are made of.
Letters ==
    <<"a", "b", "c", "d", "e", "f", "g", "h", "i", "j", "k", "l", "m",
      "n", "o", "p", "q", "r", "s", "t", "u", "v", "w", "x", "y", "z">>
byte(c) ==
    IF c = "." THEN 46
    ELSE IF c = " " THEN 32
    ELSE 96 + (CHOOSE i \in 1..Len(Letters) : Letters[i] = c)

\* str::cmp: -1, 0 or 1 as a is less than, equal to or greater than b, byte
\* by byte, a proper prefix being less.
RECURSIVE str_cmp(_, _)
str_cmp(a, b) ==
    IF a = <<>> THEN (IF b = <<>> THEN 0 ELSE -1)
    ELSE IF b = <<>> THEN 1
    ELSE IF byte(Head(a)) < byte(Head(b)) THEN -1
    ELSE IF byte(Head(a)) > byte(Head(b)) THEN 1
    ELSE str_cmp(Tail(a), Tail(b))

StructureInfo(path, itemtype, help_msg) ==
    [path |-> path, itemtype |-> itemtype, help_msg |-> help_msg]

cmp_swapped(x, y) == str_cmp(y.path, x.path)

\* impl Ord for StructureInfo
cmp(x, y) == str_cmp(x.path, y.path)

\* BTreeSet::insert, the set kept as the sequence its iterator gives: a value
\* equal to one of the set is dropped, the one in the set stays.
insert(set, x) ==
    IF \E i \in 1..Len(set) : cmp(set[i], x) = 0 THEN set
    ELSE LET k == Cardinality({ i \in 1..Len(set) : cmp(set[i], x) < 0 }) IN
         SubSeq(set, 1, k) \o <<x>> \o SubSeq(set, k + 1, Len(set))

\* The for loops over the actions of a class whose path is parent_path.
RECURSIVE insert_actions(_, _, _)
insert_actions(set, parent_path, actions) ==
    IF actions = <<>> THEN set
    ELSE insert_actions(
            insert(set, StructureInfo(parent_path \o <<".", ".">> \o Head(actions).name,
                                      "Action", Head(actions).help)),
            parent_path, Tail(actions))

\* The while loop of structure: stack holds (path, class) pairs and is popped
\* at its end.
RECURSIVE structure_loop(_, _)
structure_loop(set, stack) ==
    IF stack = <<>> THEN set
    ELSE LET item == stack[Len(stack)]
             parent_path == item.path
             parent == item.class
             pushed == [i \in 1..Len(parent.classes) |->
                          [path |-> parent_path \o <<".">> \o parent.classes[i].name,
                           class |-> parent.classes[i]]]
         IN  structure_loop(
                insert(insert_actions(set, parent_path, parent.actions),
                       StructureInfo(parent_path, "Class", parent.help)),
                SubSeq(stack, 1, Len(stack) - 1) \o pushed)

\* Commander::structure
structure(self, from_root) ==
    LET r == IF from_root THEN self.root ELSE SubAt(self.root, self.current) IN
    structure_loop(insert_actions(<<>>, <<>>, r.actions),
                   [i \in 1..Len(r.classes) |->
                      [path |-> r.classes[i].name, class |-> r.classes[i]]])

\* structure up to its while loop: the actions of r are in the set and the
\* classes of r on the stack, each a (path, reference) pair, the reference
\* given as the class's position in the tree.
structure_begin(self, from_root) ==
    LET at == IF from_root THEN <<>> ELSE self.current
        r == SubAt(self.root, at)
        stack == [i \in 1..Len(r.classes) |->
                    [path |-> r.classes[i].name, at |-> Append(at, i)]]
    IN  [from_root |-> from_root,
         set |-> insert_actions(<<>>, <<>>, r.actions),
         stack |-> stack,
         pushed |-> [i \in 1..Len(stack) |-> stack[i].at],
         popped |-> <<>>]

structure_pop_drops_classes(self, t) ==
    LET item == t.stack[Len(t.stack)]
        parent == SubAt(self.root, item.at)
    IN  [t EXCEPT
            !.set = insert(insert_actions(t.set, item.path, parent.actions),
                           StructureInfo(item.path, "Class", parent.help)),
            !.stack = SubSeq(t.stack, 1, Len(t.stack) - 1),
            !.popped = Append(@, item.at)]

\* One turn of the while loop: stack.pop(), the actions of the class popped,
\* its classes pushed, its own entry.
structure_pop(self, t) ==
    LET item == t.stack[Len(t.stack)]
        parent_path == item.path
        parent == SubAt(self.root, item.at)
        classes == [i \in 1..Len(parent.classes) |->
                      [path |-> parent_path \o <<".">> \o parent.classes[i].name,
                       at |-> Append(item.at, i)]]
    IN  [t EXCEPT
            !.set = insert(insert_actions(t.set, parent_path, parent.actions),
                           StructureInfo(parent_path, "Class", parent.help)),
            !.stack = SubSeq(t.stack, 1, Len(t.stack) - 1) \o classes,
            !.pushed = @ \o [i \in 1..Len(classes) |-> classes[i].at],
            !.popped = Append(@, item.at)]

\* -------------------------------------------------------------- completion

\* str::split('.') followed by filter(|x| !x.is_empty())
RECURSIVE split_dot_acc(_, _)
split_dot_acc(s, piece) ==
    IF s = <<>> THEN <<piece>>
    ELSE IF Head(s) = "." THEN <<piece>> \o split_dot_acc(Tail(s), <<>>)
    ELSE split_dot_acc(Tail(s), Append(piece, Head(s)))

split_dot(s) == split_dot_acc(s, <<>>)

non_empty(xs) == SelectSeq(xs, LAMBDA x : x # <<>>)

RECURSIVE tree_fold_space_after(_, _)
tree_fold_space_after(acc, xs) ==
    IF xs = <<>> THEN acc
    ELSE tree_fold_space_after(acc \o Head(xs) \o <<" ">>, Tail(xs))

\* The fold of create_tree_completion_items: a space goes before every
\* piece but the first.
RECURSIVE tree_fold(_, _)
tree_fold(acc, xs) ==
    IF xs = <<>> THEN acc
    ELSE tree_fold((IF Len(acc) # 0 THEN acc \o <<" ">> ELSE acc) \o Head(xs),
                   Tail(xs))

\* The fold of create_action_completion_items: a space goes after every piece.
RECURSIVE action_fold(_, _)
action_fold(acc, xs) ==
    IF xs = <<>> THEN acc
    ELSE action_fold(acc \o Head(xs) \o <<" ">>, Tail(xs))

CompletionInfo(completestr, itemtype, help_msg) ==
    [completestr |-> completestr, itemtype |-> itemtype, help_msg |-> help_msg]

\* filter_map over a sequence of structure entries.
RECURSIVE tree_filter_map(_)
tree_filter_map(infos) ==
    IF infos = <<>> THEN <<>>
    ELSE LET info == Head(infos)
             completestr == tree_fold(<<>>, non_empty(split_dot(info.path)))
         IN  (IF completestr = <<>> THEN <<>>
              ELSE <<CompletionInfo(completestr, info.itemtype, info.help_msg)>>)
             \o tree_filter_map(Tail(infos))

create_tree_completion_items(cmdr_) == tree_filter_map(structure(cmdr_, FALSE))

\* str::starts_with and str::contains("..")
starts_with_some(s, prefix) ==
    prefix # <<>> /\ Len(prefix) <= Len(s) /\ SubSeq(s, 1, Len(prefix)) = prefix

starts_with(s, prefix) ==
    Len(prefix) <= Len(s) /\ SubSeq(s, 1, Len(prefix)) = prefix

RECURSIVE action_filter_map(_, _)
action_filter_map(infos, starter) ==
    IF infos = <<>> THEN <<>>
    ELSE LET x == Head(infos)
             completestr ==
                action_fold(<<>>,
                    non_empty(split_dot(SubSeq(x.path, Len(starter) + 1, Len(x.path)))))
         IN  (IF Contains(x.path, <<".", ".">>) /\ starts_with(x.path, starter)
                 /\ completestr # <<>>
              THEN << [info |-> CompletionInfo(completestr, x.itemtype, x.help_msg),
                       qualified_path |-> x.path] >>
              ELSE <<>>)
             \o action_filter_map(Tail(infos), starter)

create_action_completion_items(cmdr_) ==
    LET cpath == cmdr_.path
        rname == cmdr_.root.name
        starter == IF cpath = rname THEN <<>>
                   ELSE SubSeq(cpath, Len(rname) + 2, Len(cpath))
    IN  action_filter_map(structure(cmdr_, TRUE), starter)

\* The loop of word_break_start over s.char_indices().rev(): the characters
\* s[1..n] are still to be looked at, the last of them first; a character's
\* index in the source is one less than its place here.
RECURSIVE word_break_loop(_, _, _, _)
word_break_loop(s, word_break_ch, n, start_) ==
    IF n = 0 THEN start_
    ELSE IF s[n] \in word_break_ch THEN start_
    ELSE word_break_loop(s, word_break_ch, n - 1, n - 1)

word_break_start_off_by_one(s, word_break_ch) ==
    LET start_ == word_break_loop(s, word_break_ch, Len(s), Len(s))
    IN  IF start_ = 0 THEN 0 ELSE start_ - 1

word_break_start(s, word_break_ch) ==
    word_break_loop(s, word_break_ch, Len(s), Len(s))

\* What a call returns, or that it panicked.
Returns(value) == [panic |-> FALSE, value |-> value]
Panics == [panic |-> TRUE, value |-> <<>>]

\* &s[idx..], which panics when idx is past the end of s.
str_from(s, idx_) ==
    IF idx_ > Len(s) THEN Panics ELSE Returns(SubSeq(s, idx_ + 1, Len(s)))

\* The filter and the map of tree_completions over what is left of items,
\* after out.
RECURSIVE tree_completions_iter(_, _, _)
tree_completions_iter(line_, items, out) ==
    IF items = <<>> THEN Returns(out)
    ELSE LET x == Head(items) IN
         IF ~starts_with(x.completestr, line_)
         THEN tree_completions_iter(line_, Tail(items), out)
         ELSE LET word_idx == word_break_start(line_, {" "})
                  word == str_from(x.completestr, word_idx)
              IN  IF word.panic THEN Panics
                  ELSE tree_completions_iter(line_, Tail(items),
                            Append(out, <<word.value, x>>))

tree_completions_from_line_end(line_, items) ==
    LET out == tree_completions_iter(line_, items, <<>>)
    IN  IF out.panic THEN out
        ELSE Returns([i \in 1..Len(out.value) |->
                <<SubSeq(out.value[i][2].completestr, Len(line_) + 1,
                         Len(out.value[i][2].completestr)),
                  out.value[i][2]>>])

tree_completions(line_, items) == tree_completions_iter(line_, items, <<>>)

\* ------------------------------------------------------------- input lines

\* Words put on the input lines: a name of the tree in capitals, the
\* reserved words and a word that is no name.
WordInputs ==
    { <<"A">>, <<"H", "e", "l", "p">>, <<"C">>, <<"e", "x", "i", "t">>, <<"X">> }

\* The sequences of 0..n words.
RECURSIVE WordSeqs(_)
WordSeqs(n) ==
    IF n = 0 THEN { <<>> }
    ELSE LET shorter == WordSeqs(n - 1) IN
         shorter \cup { Append(ws, w) : ws \in { x \in shorter : Len(x) = n - 1 },
                                        w \in WordInputs }

\* Lines with empty words, white space around them and line ends in them.
RawLines ==
    { <<>>, <<" ">>, <<"\n">>, <<" ", "a", "\r", "\n">>, <<"a", " ", "\n">>,
      <<"a", " ", " ", "A">>, <<" ", " ", "a">>, <<"A", " ", " ", " ", "X">>,
      <<"c", "a", "n", "c", "e", "l">>, <<"a", " ", "C", "a", "n", "c", "e", "l", " ", "X">>,
      <<"\t", "e", "\n", "x", "I", "T", " ", " ">>, <<"a", "\t", "c">> }

\* Longer lines: three classes deep, a terminal word after two classes, words
\* after a terminal word, several arguments.
LongLines ==
    { join_space(ws) : ws \in
        { <<w, w, w>> : w \in { <<"A">> } } \cup
        { << <<"A">>, <<"a">>, w >> : w \in WordInputs } \cup
        { << <<"A">>, w, <<"X">>, <<"A">> >> : w \in WordInputs } \cup
        { << w, <<"X">>, <<"A">>, <<"H", "e", "l", "p">> >> : w \in WordInputs } }

LineInputs ==
    { join_space(ws) : ws \in WordSeqs(MaxWords) \ { <<>> } }
        \cup RawLines \cup LongLines

\* ------------------------------------------------------------------- state

VARIABLES
    stage,      \* "builder": the chain is being built; "commander": it was
                \* finished and the caller is about to give a line; "returned":
                \* parse_line has returned and the caller holds its result
    builder,    \* the BuilderResult the chain of Builder calls has produced
    cmdr,       \* the Result<Commander, BuildError> of into_commander
    start,      \* start_class and start_path of the last parse_line call
    line,       \* the line given to the last parse_line call
    colourise,  \* its colourise argument
    words,      \* the words it split the line into
    result,     \* the LineResult it returned
    writer,     \* the lines it wrote to the writer
    calls,      \* the action closures it called, with their arguments
    idx,        \* the number of words it took from the line
    root_name,  \* the name given to Builder::new
    op,         \* the last call that took the chain by value or the
                \* Commander by &mut, with the name given to it
    before,     \* the BuilderResult the last Builder call was made on
    begun,      \* the begin_class calls that have returned Ok
    ended,      \* the end_class calls that have returned Ok, those made by
                \* root and into_commander among them
    ret,        \* what the last structure or completion call returned
    threads,    \* where each thread that shares an Action is in Action::call
    mutex,      \* the Mutex around the closure of that Action
    traversal   \* set and stack of the structure call that is running, with
                \* the classes it has pushed and popped

vars ==
    <<stage, builder, cmdr, start, line, colourise, words, result, writer, calls,
      idx, root_name, op, before, begun, ended, ret, threads, mutex, traversal>>

\* Largest number of threads that hold the same Action.
MaxThreads == 3

\* Largest number of calls a thread makes.
MaxCalls == 2

Threads == 1..MaxThreads

\* Mutex::new: held by no thread, not poisoned.
NoThread == 0
NewMutex == [holder |-> NoThread, poisoned |-> FALSE]

\* A thread that has made no call.
NoThreads == [t \in Threads |-> [pc |-> "idle", made |-> 0]]

NoResult == [kind |-> "None", r |-> <<>>]
NoStart == [class |-> <<>>, path |-> <<>>]
NoBuilder == Err("NoBuilder")
NoRet == [call |-> "None", from_root |-> FALSE, value |-> <<>>]

\* No structure call is running.
NoTraversal ==
    [from_root |-> FALSE, set |-> <<>>, stack |-> <<>>, pushed |-> <<>>,
     popped |-> <<>>]
Called(kind, name) == [kind |-> kind, name |-> name]

Init ==
    /\ stage = "builder"
    /\ root_name \in RootNames
    /\ builder = new(root_name)
    /\ op = Called("new", root_name)
    /\ before = NoBuilder
    /\ begun = 0
    /\ ended = 0
    /\ ret = NoRet
    /\ cmdr = NoCommander
    /\ start = NoStart
    /\ line = <<>>
    /\ colourise = FALSE
    /\ words = <<>>
    /\ result = NoResult
    /\ writer = <<>>
    /\ calls = <<>>
    /\ idx = 0
    /\ threads = NoThreads
    /\ mutex = NewMutex
    /\ traversal = NoTraversal

NoCall ==
    UNCHANGED <<start, line, colourise, words, result, writer, calls, idx,
                root_name, ret, threads, mutex, traversal>>

\* The calls of a kind that have returned Ok, after a call that made n of them
\* on the chain br and returned br2.
Counted(count, br, br2, n) ==
    IF br.err = "None" /\ br2.err = "None" THEN count + n ELSE count

\* A chained call may create a class or an action only below the bound.
Room(br) == br.err = "None" => BuilderNodes(br) <= MaxNodes

BeginClass ==
    /\ stage = "builder"
    /\ \E name \in NameInputs, help_msg \in HelpInputs :
         /\ builder' = chain_begin_class(builder, name, help_msg)
         /\ Room(builder')
         /\ op' = Called("begin_class", name)
    /\ before' = builder
    /\ begun' = Counted(begun, builder, builder', 1)
    /\ UNCHANGED <<stage, cmdr, ended>>
    /\ NoCall

EndClass ==
    /\ stage = "builder"
    /\ builder' = chain_end_class(builder)
    /\ op' = Called("end_class", <<>>)
    /\ before' = builder
    /\ ended' = Counted(ended, builder, builder', 1)
    /\ UNCHANGED <<stage, cmdr, begun>>
    /\ NoCall

AddAction ==
    /\ stage = "builder"
    /\ \E name \in NameInputs, help_msg \in HelpInputs :
         /\ builder' = chain_add_action(builder, name, help_msg)
         /\ Room(builder')
         /\ op' = Called("add_action", name)
    /\ before' = builder
    /\ UNCHANGED <<stage, cmdr, begun, ended>>
    /\ NoCall

Root ==
    /\ stage = "builder"
    /\ builder' = chain_root(builder)
    /\ op' = Called("root", <<>>)
    /\ before' = builder
    /\ ended' = Counted(ended, builder, builder', root_calls(builder))
    /\ UNCHANGED <<stage, cmdr, begun>>
    /\ NoCall

IntoCommander ==
    /\ stage = "builder"
    /\ cmdr' = chain_into_commander(builder)
    /\ stage' = "commander"
    /\ builder' = Moved
    /\ op' = Called("into_commander", <<>>)
    /\ before' = builder
    /\ ended' = Counted(ended, builder, cmdr', root_calls(builder))
    /\ UNCHANGED begun
    /\ NoCall

ParseLine ==
    /\ stage = "commander"
    /\ stage' = "returned"
    /\ cmdr.err = "None"
    /\ \E l \in LineInputs, col \in BOOLEAN :
         LET o == parse_line(cmdr, l, col) IN
         /\ cmdr' = o.cmdr
         /\ start' = [class |-> cmdr.current, path |-> cmdr.path]
         /\ line' = l
         /\ colourise' = col
         /\ words' = line_words(l)
         /\ result' = o.result
         /\ writer' = o.writer
         /\ calls' = o.calls
         /\ idx' = o.idx
    /\ op' = Called("parse_line", <<>>)
    /\ before' = NoBuilder
    /\ UNCHANGED <<builder, root_name, begun, ended, ret, threads, mutex,
                    traversal>>

\* The caller is done with the result and the output of the last call and
\* goes on to its next line.
NextLine ==
    /\ stage = "returned"
    /\ stage' = "commander"
    /\ start' = NoStart
    /\ line' = <<>>
    /\ colourise' = FALSE
    /\ words' = <<>>
    /\ result' = NoResult
    /\ writer' = <<>>
    /\ calls' = <<>>
    /\ idx' = 0
    /\ ret' = NoRet
    /\ traversal' = NoTraversal
    /\ UNCHANGED <<builder, cmdr, root_name, op, before, begun, ended, threads,
                    mutex>>

Next ==
    \/ BeginClass
    \/ EndClass
    \/ AddAction
    \/ Root
    \/ IntoCommander
    \/ ParseLine
    \/ NextLine

Spec == Init /\ [][Next]_vars

\* ------------------------------------------- structure and completion calls

\* Largest number of classes and actions below the root of the Commanders
\* structure and the completion functions are called on.
MaxTreeNodes == 3

TreeRootName == <<"r">>

\* Class names: a name, a longer name that begins with it, a name with the
\* separator in it and the empty name.
TreeClassNames == { <<"a">>, <<"a", "b">>, <<".", ".", "a">>, <<>> }
TreeActionNames == { <<"a">> }

\* The chains of up to n calls that carry no error and have created at most
\* MaxTreeNodes classes and actions.
RECURSIVE Chains(_)
Chains(n) ==
    IF n = 0 THEN { new(TreeRootName) }
    ELSE LET shorter == Chains(n - 1) IN
         { br \in
             shorter
             \cup { chain_begin_class(b, name, RootHelp) :
                        b \in shorter, name \in TreeClassNames }
             \cup { chain_add_action(b, name, RootHelp) :
                        b \in shorter, name \in TreeActionNames }
             \cup { chain_end_class(b) : b \in shorter } :
           br.err = "None" /\ BuilderNodes(br) <= MaxTreeNodes }

\* Calls enough for every tree of MaxTreeNodes nodes: one to create each node
\* and an end_class between two of them.
TreeChains == Chains(2 * MaxTreeNodes - 1)

\* Number of classes below sc.
RECURSIVE ClassCount(_)
ClassCount(sc) ==
    IF sc.classes = <<>> THEN 0
    ELSE 1 + ClassCount(sc.classes[1])
           + ClassCount([sc EXCEPT !.classes = Tail(@)])

\* One-word lines: the names of the classes, the reserved words and a word
\* that is no name.
TreeLines ==
    TreeClassNames
        \cup { <<"c">>, <<"h", "e", "l", "p">>, <<"e", "x", "i", "t">>, <<"x">> }

\* The state after into_commander has finished one of the chains.
TreeInit ==
    /\ stage = "commander"
    /\ root_name = TreeRootName
    /\ builder = Moved
    /\ cmdr \in { chain_into_commander(b) : b \in TreeChains }
    /\ op = Called("into_commander", <<>>)
    /\ before = NoBuilder
    /\ begun = ClassCount(cmdr.root)
    /\ ended = begun
    /\ ret = NoRet
    /\ start = NoStart
    /\ line = <<>>
    /\ colourise = FALSE
    /\ words = <<>>
    /\ result = NoResult
    /\ writer = <<>>
    /\ calls = <<>>
    /\ idx = 0
    /\ threads = NoThreads
    /\ mutex = NewMutex
    /\ traversal = NoTraversal

\* The caller moves the cursor as the tests of the completion functions do:
\* it gives parse_line a line and a sink for writer and drops the result, and
\* with it what the last structure or completion call returned.
Navigate ==
    /\ stage = "commander"
    /\ cmdr.err = "None"
    /\ \E l \in TreeLines : cmdr' = parse_line(cmdr, l, TRUE).cmdr
    /\ op' = Called("parse_line", <<>>)
    /\ ret' = NoRet
    /\ UNCHANGED <<stage, builder, start, line, colourise, words, result, writer,
                    calls, idx, root_name, before, begun, ended, threads, mutex,
                    traversal>>

\* What a call that takes the Commander by & leaves as it is.
ReadOnly ==
    UNCHANGED <<builder, cmdr, start, line, colourise, words, result, writer,
                calls, idx, root_name, op, before, begun, ended, threads, mutex,
                traversal>>

ReturnOf(fn, from_root, value) ==
    [call |-> fn, from_root |-> from_root, value |-> value]

Structure ==
    /\ stage = "commander"
    /\ cmdr.err = "None"
    /\ \E from_root \in BOOLEAN :
         ret' = ReturnOf("structure", from_root, structure(cmdr, from_root))
    /\ stage' = "returned"
    /\ ReadOnly

CreateTreeCompletionItems ==
    /\ stage = "commander"
    /\ cmdr.err = "None"
    /\ ret' = ReturnOf("create_tree_completion_items", FALSE,
                        create_tree_completion_items(cmdr))
    /\ stage' = "returned"
    /\ ReadOnly

CreateActionCompletionItems ==
    /\ stage = "commander"
    /\ cmdr.err = "None"
    /\ ret' = ReturnOf("create_action_completion_items", FALSE,
                        create_action_completion_items(cmdr))
    /\ stage' = "returned"
    /\ ReadOnly

\* What tree_completions was given and what it returned.
CompletionsOf(line_, items) ==
    [line |-> line_, items |-> items, out |-> tree_completions(line_, items)]

\* The caller makes the items and asks for the completions of the empty line,
\* as the benchmark and the first call of tree_completions_test do.
TreeCompletions ==
    /\ stage = "commander"
    /\ cmdr.err = "None"
    /\ ret' = ReturnOf("tree_completions", FALSE,
                        CompletionsOf(<<>>, create_tree_completion_items(cmdr)))
    /\ stage' = "returned"
    /\ ReadOnly

TreeNext ==
    \/ Navigate
    \/ Structure
    \/ CreateTreeCompletionItems
    \/ CreateActionCompletionItems
    \/ TreeCompletions
    \/ NextLine

TreeSpec == TreeInit /\ [][TreeNext]_vars

\* ------------------------------------------- the functions on lines alone

\* Longest line given to tree_completions and word_break_start.
MaxLineLen == 3

\* Longest list of items given to tree_completions.
MaxItems == 2

\* The strings of up to n characters of an alphabet.
RECURSIVE Strings(_, _)
Strings(alphabet, n) ==
    IF n = 0 THEN { <<>> }
    ELSE LET shorter == Strings(alphabet, n - 1) IN
         shorter \cup { Append(t, ch) : t \in shorter, ch \in alphabet }

CompletionLines == Strings({"a", "b", " "}, MaxLineLen)

\* Completion strings of items: the empty string, one word, two words, an
\* action's string with its space at the end, a longer word and other words.
ItemStrings ==
    { <<>>, <<"a">>, <<"a", " ", "b">>, <<"a", " ", "b", " ">>, <<"a", "b">>,
      <<"b", " ", "a">> }

RECURSIVE ItemLists(_)
ItemLists(n) ==
    IF n = 0 THEN { <<>> }
    ELSE LET shorter == ItemLists(n - 1) IN
         shorter \cup { Append(l, CompletionInfo(c, "Class", RootHelp)) :
                            l \in shorter, c \in ItemStrings }

BreakLines == Strings({"a", " ", "."}, MaxLineLen)
BreakChars == { {}, {" "}, {" ", "."} }

\* No Builder and no Commander: the two functions take strings and items.
FnInit ==
    /\ stage = "functions"
    /\ root_name = <<>>
    /\ builder = NoBuilder
    /\ cmdr = NoCommander
    /\ op = Called("None", <<>>)
    /\ before = NoBuilder
    /\ begun = 0
    /\ ended = 0
    /\ ret = NoRet
    /\ start = NoStart
    /\ line = <<>>
    /\ colourise = FALSE
    /\ words = <<>>
    /\ result = NoResult
    /\ writer = <<>>
    /\ calls = <<>>
    /\ idx = 0
    /\ threads = NoThreads
    /\ mutex = NewMutex
    /\ traversal = NoTraversal

WordBreakStart ==
    /\ stage = "functions"
    /\ \E s \in BreakLines, word_break_ch \in BreakChars :
         ret' = ReturnOf("word_break_start", FALSE,
                    [s |-> s, word_break_ch |-> word_break_ch,
                     start |-> word_break_start(s, word_break_ch)])
    /\ stage' = "returned"
    /\ ReadOnly

TreeCompletionsOfItems ==
    /\ stage = "functions"
    /\ \E l \in CompletionLines, items \in ItemLists(MaxItems) :
         ret' = ReturnOf("tree_completions", FALSE, CompletionsOf(l, items))
    /\ stage' = "returned"
    /\ ReadOnly

\* The caller is done with what the last call returned.
NextCall ==
    /\ stage = "returned"
    /\ stage' = "functions"
    /\ ret' = NoRet
    /\ ReadOnly

FnNext ==
    \/ WordBreakStart
    \/ TreeCompletionsOfItems
    \/ NextCall

FnSpec == FnInit /\ [][FnNext]_vars

\* ------------------------------------------------- threads at one Action

\* Mutex::lock returns to thread t when no thread holds the mutex.
lock_never_blocks(m, t) == TRUE

lock(m, t) == m.holder = NoThread

\* One Action, its closure in a new Mutex, held by MaxThreads threads.
ThreadInit ==
    /\ stage = "threads"
    /\ root_name = <<>>
    /\ builder = NoBuilder
    /\ cmdr = NoCommander
    /\ op = Called("None", <<>>)
    /\ before = NoBuilder
    /\ begun = 0
    /\ ended = 0
    /\ ret = NoRet
    /\ start = NoStart
    /\ line = <<>>
    /\ colourise = FALSE
    /\ words = <<>>
    /\ result = NoResult
    /\ writer = <<>>
    /\ calls = <<>>
    /\ idx = 0
    /\ threads = NoThreads
    /\ mutex = NewMutex
    /\ traversal = NoTraversal

\* What a step of a thread leaves as it is.
ThreadFrame ==
    UNCHANGED <<stage, builder, cmdr, start, line, colourise, words, result,
                writer, calls, idx, root_name, op, before, begun, ended, ret,
                traversal>>

\* Thread t enters Action::call and comes to self.closure.lock().
Call(t) ==
    /\ stage = "threads"
    /\ threads[t].pc = "idle"
    /\ threads[t].made < MaxCalls
    /\ threads' = [threads EXCEPT ![t].pc = "lock"]
    /\ UNCHANGED mutex
    /\ ThreadFrame

\* lock() returns Ok(guard): t holds the mutex and calls the closure.
LockOk(t) ==
    /\ threads[t].pc = "lock"
    /\ lock(mutex, t)
    /\ ~mutex.poisoned
    /\ mutex' = [mutex EXCEPT !.holder = t]
    /\ threads' = [threads EXCEPT ![t].pc = "closure"]
    /\ ThreadFrame

\* lock() returns Err(PoisonError): expect panics and the guard inside the
\* error is dropped, the closure not called.
LockPoisoned(t) ==
    /\ threads[t].pc = "lock"
    /\ lock(mutex, t)
    /\ mutex.poisoned
    /\ threads' = [threads EXCEPT ![t].pc = "panicked"]
    /\ UNCHANGED mutex
    /\ ThreadFrame

\* The closure returns; the guard is dropped at the end of call.
ClosureReturns(t) ==
    /\ threads[t].pc = "closure"
    /\ mutex' = [mutex EXCEPT !.holder = NoThread]
    /\ threads' = [threads EXCEPT ![t].pc = "idle", ![t].made = @ + 1]
    /\ ThreadFrame

\* The closure panics; the guard is dropped while t unwinds, which poisons the
\* mutex.
ClosurePanics(t) ==
    /\ threads[t].pc = "closure"
    /\ mutex' = [holder |-> NoThread, poisoned |-> TRUE]
    /\ threads' = [threads EXCEPT ![t].pc = "panicked"]
    /\ ThreadFrame

ThreadNext ==
    \E t \in Threads :
        \/ Call(t)
        \/ LockOk(t)
        \/ LockPoisoned(t)
        \/ ClosureReturns(t)
        \/ ClosurePanics(t)

ThreadSpec == ThreadInit /\ [][ThreadNext]_vars

\* ------------------------------------------- structure, one turn at a time

\* What a step of structure leaves as it is: it takes the Commander by &.
StructureFrame ==
    UNCHANGED <<builder, cmdr, start, line, colourise, words, result, writer,
                calls, idx, root_name, op, before, begun, ended, threads, mutex>>

\* The caller calls structure, which comes to its while loop.
StructureCall ==
    /\ stage = "commander"
    /\ cmdr.err = "None"
    /\ \E from_root \in BOOLEAN : traversal' = structure_begin(cmdr, from_root)
    /\ stage' = "structure"
    /\ UNCHANGED ret
    /\ StructureFrame

\* while let Some(item) = stack.pop()
StructurePop ==
    /\ stage = "structure"
    /\ traversal.stack # <<>>
    /\ traversal' = structure_pop(cmdr, traversal)
    /\ UNCHANGED <<stage, ret>>
    /\ StructureFrame

\* stack.pop() gives None: the loop ends and the set is returned.
StructureReturn ==
    /\ stage = "structure"
    /\ traversal.stack = <<>>
    /\ ret' = ReturnOf("structure", traversal.from_root, traversal.set)
    /\ stage' = "returned"
    /\ UNCHANGED traversal
    /\ StructureFrame

WalkNext ==
    \/ Next
    \/ StructureCall
    \/ StructurePop
    \/ StructureReturn

\* A call that has begun goes on: the loop runs on the caller's thread and
\* waits for nothing.
WalkSpec ==
    /\ Init
    /\ [][WalkNext]_vars
    /\ WF_vars(StructurePop)
    /\ WF_vars(StructureReturn)

\* ============================================================ properties

\* A Commander exists (into_commander returned Ok).
Running == stage # "builder" /\ cmdr.err = "None"

\* parse_line has returned and its result is at hand.
Returned == stage = "returned"

\* The names of the classes met on the way from sc down the indices pos.
RECURSIVE ChainNames(_, _)
ChainNames(sc, pos) ==
    IF pos = <<>> THEN <<>>
    ELSE <<sc.classes[Head(pos)].name>>
            \o ChainNames(sc.classes[Head(pos)], Tail(pos))

\* prefix followed by "." + name for each of the names.
RECURSIVE DotJoin(_, _)
DotJoin(prefix, names) ==
    IF names = <<>> THEN prefix
    ELSE DotJoin(prefix \o <<".">> \o Head(names), Tail(names))

\* Whether word names, case-insensitively, a child class of sc, and which.
NamesChild(sc, word) ==
    \E i \in 1..Len(sc.classes) :
        to_lowercase(sc.classes[i].name) = to_lowercase(word)
ChildNamed(sc, word) ==
    CHOOSE i \in 1..Len(sc.classes) :
        to_lowercase(sc.classes[i].name) = to_lowercase(word)

\* Whether word names, case-insensitively, an action of sc.
NamesAction(sc, word) ==
    \E i \in 1..Len(sc.actions) :
        to_lowercase(sc.actions[i].name) = to_lowercase(word)

\* Follow the words that name child classes, from position pos of the tree
\* rt, having followed k words: the position reached and the number of words
\* followed.  The word after them, if any, is the first that is no class name.
RECURSIVE Walk(_, _, _, _)
Walk(rt, pos, ws, k) ==
    IF k < Len(ws) /\ NamesChild(SubAt(rt, pos), ws[k + 1])
    THEN Walk(rt, Append(pos, ChildNamed(SubAt(rt, pos), ws[k + 1])), ws, k + 1)
    ELSE [pos |-> pos, k |-> k]

\* The last call: its words, the walk of its leading class names from the
\* entry position, the first word that is no class name, the Commander at entry.
LastWords == words
LastWalk == Walk(cmdr.root, start.class, LastWords, 0)
HasStop == LastWalk.k < Len(LastWords)
StopWord == LastWords[LastWalk.k + 1]
StopClass == SubAt(cmdr.root, LastWalk.pos)
StartCmdr == [cmdr EXCEPT !.current = start.class, !.path = start.path]

\* C1: at all times the current position is a class of the tree, path is the
\* root name followed by "." + name for each class from the root down to the
\* current position, and at_root() holds exactly when path is the root name
\* alone (and exactly when the current position is the root).
C1_PathFollowsCurrent ==
    Running =>
        /\ cmdr.current \in Positions(cmdr.root)
        /\ cmdr.path = DotJoin(cmdr.root.name, ChainNames(cmdr.root, cmdr.current))
        /\ at_root(cmdr) <=> (cmdr.path = cmdr.root.name)
        /\ at_root(cmdr) <=> (cmdr.current = <<>>)

\* A call has left the cursor two classes deep, at a class named like the root.
C1_Witness ==
    /\ Returned
    /\ Len(cmdr.current) = 2
    /\ SubAt(cmdr.root, cmdr.current).name = cmdr.root.name
    /\ SubAt(cmdr.root, cmdr.current).help = cmdr.root.help

\* C2: a call that returns Help, Action or Unrecognized leaves current and
\* path as they were at entry, and the same line given again returns the same
\* kind of result.
C2_HelpActionUnrecognizedRestore ==
    (Returned /\ result.kind \in {"Help", "Action", "Unrecognized"}) =>
        /\ cmdr.current = start.class
        /\ cmdr.path = start.path
        /\ parse_line(cmdr, line, colourise).result.kind = result.kind

\* An action of a class below the root was called after the name of that
\* class ("one three").
C2_Witness ==
    /\ Returned
    /\ result.kind = "Action"
    /\ idx = 2
    /\ calls[1].owner # <<>>

\* C3: a call that returns Exit leaves current and path as they were at entry,
\* also when class names precede exit on the line.
C3_ExitRestores ==
    (Returned /\ result.kind = "Exit") =>
        /\ cmdr.current = start.class
        /\ cmdr.path = start.path

\* C4: when the first word that is no child-class name is cancel or c in any
\* letter case, the call returns Cancel and leaves current at the root and
\* path equal to the root name.
C4_CancelGoesToRoot ==
    (Returned /\ HasStop
       /\ to_lowercase(StopWord) \in { <<"c", "a", "n", "c", "e", "l">>, <<"c">> }) =>
        /\ result.kind = "Cancel"
        /\ cmdr.current = <<>>
        /\ cmdr.path = cmdr.root.name
        /\ at_root(cmdr)

\* Cancel was met away from the root, after a class name and before other words.
C4_Witness ==
    /\ Returned
    /\ result.kind = "Cancel"
    /\ start.class # <<>>
    /\ idx >= 2
    /\ idx < Len(LastWords)

\* C5: when every word names a child class of the position reached by the
\* words before it, the call returns Class, current is the class reached by
\* the last word, path is the entry path followed by "." + name for each class
\* in order, and giving the words in two calls instead of one ends in the same
\* Commander.
C5_ClassNavigation ==
    (Returned /\ ~HasStop) =>
        /\ result.kind = "Class"
        /\ cmdr.current = LastWalk.pos
        /\ cmdr.path = DotJoin(start.path,
                               ChainNames(SubAt(cmdr.root, start.class),
                                          SubSeq(LastWalk.pos, Len(start.class) + 1,
                                                 Len(LastWalk.pos))))
        /\ \A n \in 1..(Len(LastWords) - 1) :
             LET first == join_space(SubSeq(LastWords, 1, n))
                 rest == join_space(SubSeq(LastWords, n + 1, Len(LastWords)))
             IN  (line_words(first) \o line_words(rest) = LastWords) =>
                    parse_line(parse_line(StartCmdr, first, colourise).cmdr,
                               rest, colourise).cmdr = cmdr

\* Two class names, given in capitals, were followed in one call.
C5_Witness ==
    /\ Returned
    /\ result.kind = "Class"
    /\ idx = 2
    /\ LastWords = << <<"A">>, <<"A">> >>
    /\ cmdr.path = cmdr.root.name \o <<".", "a", ".", "a">>

\* C6: when the first word that is no child-class name names an action of the
\* position reached, that action's closure is called exactly once, with the
\* words after it as they were typed, and the call returns Action with the
\* value the closure returned.
C6_ActionCalledWithRest ==
    (Returned /\ HasStop /\ NamesAction(StopClass, StopWord)) =>
        /\ result.kind = "Action"
        /\ Len(calls) = 1
        /\ calls[1].owner = LastWalk.pos
        /\ StopClass.actions[calls[1].action].name = to_lowercase(StopWord)
        /\ calls[1].arguments =
              SubSeq(LastWords, LastWalk.k + 2, Len(LastWords))
        /\ calls[1].returned = closure(calls[1].arguments)
        /\ result.r = <<calls[1].returned>>

\* An action below a class was called with two arguments, capitals in them.
C6_Witness ==
    /\ Returned
    /\ result.kind = "Action"
    /\ idx = 2
    /\ calls[1].arguments = << <<"X">>, <<"A">> >>

\* C7: when a word is no reserved word, no child class and no action of the
\* position reached, the call returns Unrecognized, writes one line holding
\* the word as typed, calls no closure, takes no later word and leaves current
\* and path as at entry.
C7_UnrecognizedWord ==
    (Returned /\ HasStop
       /\ to_lowercase(StopWord) \notin ReservedWords
       /\ ~NamesAction(StopClass, StopWord)) =>
        /\ result.kind = "Unrecognized"
        /\ Len(writer) = 1
        /\ Contains(writer[1], <<"'">> \o StopWord \o <<"'">>)
        /\ calls = <<>>
        /\ idx = LastWalk.k + 1
        /\ cmdr.current = start.class
        /\ cmdr.path = start.path

\* An unknown word in capitals came after a class name, away from the root,
\* with more words behind it.
C7_Witness ==
    /\ Returned
    /\ result.kind = "Unrecognized"
    /\ start.class # <<>>
    /\ idx = 2
    /\ LastWords[idx] = <<"X">>
    /\ Len(LastWords) > idx

\* The first empty word of the last line, 0 when it has none.
FirstEmpty ==
    IF \E i \in 1..Len(LastWords) : LastWords[i] = <<>>
    THEN CHOOSE i \in 1..Len(LastWords) :
            /\ LastWords[i] = <<>>
            /\ \A j \in 1..(i - 1) : LastWords[j] # <<>>
    ELSE 0

\* C8: an empty line, and a line whose empty word is reached before any
\* terminal word, returns Unrecognized at the empty word and leaves current
\* and path as at entry.
C8_EmptyWordUnrecognized ==
    (Returned /\ FirstEmpty > 0 /\ LastWalk.k >= FirstEmpty - 1) =>
        /\ result.kind = "Unrecognized"
        /\ idx = FirstEmpty
        /\ cmdr.current = start.class
        /\ cmdr.path = start.path

\* The tree built so far: the root as into_commander would leave it while the
\* chain is open, the Commander's root afterwards.
HasTree == IF stage = "builder" THEN builder.err = "None" ELSE cmdr.err = "None"
BuiltTree == IF stage = "builder" THEN root(builder).current ELSE cmdr.root

ReservedSeq ==
    << <<"h", "e", "l", "p">>, <<"c", "a", "n", "c", "e", "l">>, <<"c">>,
       <<"e", "x", "i", "t">> >>

\* The names that must differ within the class sc.
ScopeNames(sc) ==
    [i \in 1..Len(sc.classes) |-> sc.classes[i].name]
        \o [i \in 1..Len(sc.actions) |-> sc.actions[i].name]
        \o ReservedSeq

\* Every name in the tree sc is in lower case and the names within each class
\* differ from one another and from the reserved words, whatever the case.
RECURSIVE NamesOK(_)
NamesOK(sc) ==
    /\ sc.name = to_lowercase(sc.name)
    /\ \A i \in 1..Len(sc.actions) :
          sc.actions[i].name = to_lowercase(sc.actions[i].name)
    /\ \A i, j \in 1..Len(ScopeNames(sc)) :
          i < j => to_lowercase(ScopeNames(sc)[i]) # to_lowercase(ScopeNames(sc)[j])
    /\ \A i \in 1..Len(sc.classes) : NamesOK(sc.classes[i])

\* C9: in every tree the Builder produces, every class and action name is its
\* own lower-case form, and within each class the child class names, the
\* action names and the reserved words are pairwise different, whatever the
\* case.
C9_NamesLowerAndUnique == HasTree => NamesOK(BuiltTree)

\* A finished tree with a class and an action side by side below a root given
\* in capitals, the class named like the root.
C9_Witness ==
    /\ stage = "commander"
    /\ cmdr.err = "None"
    /\ cmdr.root.name = <<"a">>
    /\ Len(cmdr.root.classes) = 1
    /\ Len(cmdr.root.actions) = 1
    /\ cmdr.root.classes[1].name = <<"a">>

\* The names of the classes and actions below sc.
RECURSIVE NamesBelow(_)
NamesBelow(sc) ==
    { sc.actions[i].name : i \in 1..Len(sc.actions) }
        \cup { sc.classes[i].name : i \in 1..Len(sc.classes) }
        \cup UNION { NamesBelow(sc.classes[i]) : i \in 1..Len(sc.classes) }

\* C10 as claimed: no class, the root included, and no action of a built tree
\* has a reserved word for its name.
C10_NoReservedNameAnywhere ==
    HasTree =>
        \A n \in NamesBelow(BuiltTree) \cup { BuiltTree.name } :
            to_lowercase(n) \notin ReservedWords

\* C10 as amended: no class other than the root and no action of a built tree
\* has a reserved word for its name.
C10_NoReservedNameBelowRoot ==
    HasTree => \A n \in NamesBelow(BuiltTree) : to_lowercase(n) \notin ReservedWords

\* A finished tree with classes and actions below a root named exit.
C10_Witness ==
    /\ stage = "commander"
    /\ cmdr.err = "None"
    /\ cmdr.root.name \in ReservedWords
    /\ Len(cmdr.root.classes) >= 1
    /\ Len(cmdr.root.actions) >= 1

\* ------------------------------------------------------- the Builder chain

\* The last call was one of kinds, made on a chain that carried no error.
CalledOnOk(kinds) == op.kind \in kinds /\ before.err = "None"

\* C11: begin_class(name) and add_action(name) validate name alike against the
\* open scope: NameExistsAsAction when the name in lower case is a reserved
\* word or an action of the scope, NameExistsAsClass when it is a child class
\* closed into the scope, success otherwise, and no other error.
C11_SameValidation ==
    (stage = "builder" /\ CalledOnOk({"begin_class", "add_action"})) =>
        LET lwr == to_lowercase(op.name)
            scope == before.current
            is_action == \E i \in 1..Len(scope.actions) : scope.actions[i].name = lwr
            is_class == \E i \in 1..Len(scope.classes) : scope.classes[i].name = lwr
        IN  builder.err =
               IF lwr \in ReservedWords \/ is_action THEN "NameExistsAsAction"
               ELSE IF is_class THEN "NameExistsAsClass"
               ELSE "None"

\* add_action was given, in capitals, the name of a class closed into the scope.
C11_Witness ==
    /\ stage = "builder"
    /\ CalledOnOk({"add_action"})
    /\ op.name = <<"A">>
    /\ builder.err = "NameExistsAsClass"

\* C12: while the chain carries no error the number of parents is the number
\* of begin_class calls that returned Ok minus the number of end_class calls
\* that returned Ok (those root makes are end_class calls); end_class returns
\* Ok exactly when there is a parent, and the closed scope is then the last
\* child of that parent, and NoParent exactly when there is none.
C12_DepthCountsScopes ==
    /\ (stage = "builder" /\ builder.err = "None") =>
          Len(builder.parents) = begun - ended
    /\ (stage = "builder" /\ CalledOnOk({"end_class"})) =>
          IF Len(before.parents) > 0
          THEN LET parent == before.parents[Len(before.parents)] IN
               /\ builder.err = "None"
               /\ builder.parents = SubSeq(before.parents, 1, Len(before.parents) - 1)
               /\ builder.current.name = parent.name
               /\ builder.current.actions = parent.actions
               /\ builder.current.classes = Append(parent.classes, before.current)
          ELSE builder.err = "NoParent"

\* end_class closed a second class into a scope, named unlike the first.
C12_Witness ==
    /\ stage = "builder"
    /\ CalledOnOk({"end_class"})
    /\ builder.err = "None"
    /\ Len(builder.current.classes) = 2
    /\ builder.current.classes[1].name # builder.current.classes[2].name

\* C13: into_commander on a chain that carries no error returns Ok, whatever
\* the number of open scopes, and the Commander is at the root, its path is
\* the root name and its root is the class Builder::new made (named by the
\* given name in lower case).
C13_IntoCommanderAtRoot ==
    (stage = "commander" /\ CalledOnOk({"into_commander"})) =>
        /\ cmdr.err = "None"
        /\ cmdr.current = <<>>
        /\ at_root(cmdr)
        /\ cmdr.path = cmdr.root.name
        /\ cmdr.root.name = to_lowercase(root_name)
        /\ cmdr.root.help = RootHelp

\* into_commander was called with two scopes open.
C13_Witness ==
    /\ stage = "commander"
    /\ CalledOnOk({"into_commander"})
    /\ Len(before.parents) = 2
    /\ cmdr.err = "None"

\* end_class called k times in a row.
RECURSIVE EndTimes(_, _)
EndTimes(br, k) == IF k = 0 THEN br ELSE EndTimes(chain_end_class(br), k - 1)

\* C14: into_commander with k scopes open returns the Commander that k
\* end_class calls followed by into_commander return, and root after root
\* changes nothing.
C14_ClosingByHandIsTheSame ==
    /\ (stage = "commander" /\ CalledOnOk({"into_commander"})) =>
          /\ cmdr = chain_into_commander(EndTimes(before, Len(before.parents)))
          /\ chain_root(chain_root(before)) = chain_root(before)
    /\ (stage = "builder" /\ CalledOnOk({"root"})) =>
          /\ builder = EndTimes(before, Len(before.parents))
          /\ chain_root(builder) = builder

\* into_commander was called in an open scope, below a root that already has
\* a closed class.
C14_Witness ==
    /\ stage = "commander"
    /\ CalledOnOk({"into_commander"})
    /\ Len(before.parents) = 1
    /\ Len(before.parents[1].classes) = 1
    /\ Len(cmdr.root.classes) = 2

ChainCalls == {"begin_class", "end_class", "add_action", "root"}

\* C15: a chained call made on a chain that carries an error returns that
\* chain as it is, and into_commander returns its error; so the first error
\* of a chain is the one that comes out of it.
C15_ErrorPassesThrough ==
    /\ (stage = "builder" /\ op.kind \in ChainCalls /\ before.err # "None") =>
          builder = before
    /\ (stage = "commander" /\ op.kind = "into_commander" /\ before.err # "None") =>
          /\ cmdr.err = before.err
          /\ cmdr.root = NoClass

\* end_class, which alone would return Ok or NoParent, was called on a chain
\* that carries NameExistsAsClass.
C15_Witness ==
    /\ stage = "builder"
    /\ op.kind = "end_class"
    /\ before.err = "NameExistsAsClass"
    /\ builder.err = "NameExistsAsClass"

\* ---------------------------------------------- structure and completion

\* a comes before b in lexicographic order: they agree on their first k
\* characters and then a ends and b does not, or a has the smaller byte.
LexLess(a, b) ==
    \E k \in 0..Len(a) :
        /\ k <= Len(b)
        /\ SubSeq(a, 1, k) = SubSeq(b, 1, k)
        /\ IF k = Len(a) THEN k < Len(b)
           ELSE k < Len(b) /\ byte(a[k + 1]) < byte(b[k + 1])

\* The Commander with its cursor where into_commander left it.
Rewound == [cmdr EXCEPT !.current = <<>>, !.path = cmdr.root.name]

\* The last call was structure.
StructureReturned == ret.call = "structure"

\* C16: structure returns its entries in strictly ascending lexicographic
\* order of path, and structure(true) returns, wherever parse_line calls have
\* left the cursor, what it returns right after into_commander.
C16_StructureSorted ==
    StructureReturned =>
        /\ \A i \in 1..(Len(ret.value) - 1) :
              LexLess(ret.value[i].path, ret.value[i + 1].path)
        /\ ret.from_root => ret.value = structure(Rewound, TRUE)

\* structure(true) was called away from the root on a tree of three nodes.
C16_Witness ==
    /\ StructureReturned
    /\ ret.from_root
    /\ cmdr.current # <<>>
    /\ Len(ret.value) = 3
    /\ NodeCount(SubAt(cmdr.root, cmdr.current)) = 1

\* names joined by "."
RECURSIVE JoinDot(_)
JoinDot(names) ==
    IF names = <<>> THEN <<>>
    ELSE IF Len(names) = 1 THEN names[1]
    ELSE names[1] \o <<".">> \o JoinDot(Tail(names))

\* The (path, kind) pairs of the classes below the class r and of the actions
\* of r and of the classes below it.
EntriesBelow(r) ==
    { <<JoinDot(ChainNames(r, q)), "Class">> : q \in Positions(r) \ { <<>> } }
    \cup UNION { { <<JoinDot(ChainNames(r, q)) \o <<".", ".">>
                        \o SubAt(r, q).actions[i].name, "Action">> :
                    i \in 1..Len(SubAt(r, q).actions) } :
                 q \in Positions(r) }

\* The class structure starts from.
TraversalRoot ==
    IF ret.from_root THEN cmdr.root ELSE SubAt(cmdr.root, cmdr.current)

\* C17: the entries of structure(from_root) are exactly one Class entry for
\* each class below the traversal root, its path the class names from the
\* traversal root's child down to it joined by ".", and one Action entry for
\* each action of the traversal root or of a class below it, its path the
\* owner's path, "..", and the action name.
C17_StructureEntries ==
    StructureReturned =>
        { <<ret.value[i].path, ret.value[i].itemtype>> : i \in 1..Len(ret.value) }
            = EntriesBelow(TraversalRoot)

\* C18: structure(true) has as many entries as the tree has classes below
\* the root and actions, so distinct nodes have distinct paths.
C18_OneEntryPerNode ==
    (StructureReturned /\ ret.from_root) => Len(ret.value) = NodeCount(cmdr.root)

\* path with every run of "." between two pieces turned into one space and
\* those at its ends removed.
RECURSIVE Squeeze(_)
Squeeze(path) ==
    IF path = <<>> THEN <<>>
    ELSE IF Head(path) = "." THEN Squeeze(Tail(path))
    ELSE LET dots == { i \in 1..Len(path) : path[i] = "." }
             n == IF dots = {} THEN Len(path)
                  ELSE (CHOOSE i \in dots : \A j \in dots : i <= j) - 1
             rest == Squeeze(SubSeq(path, n + 1, Len(path)))
         IN  SubSeq(path, 1, n) \o (IF rest = <<>> THEN <<>> ELSE <<" ">> \o rest)

\* C19: create_tree_completion_items returns, in the order of
\* structure(false), one candidate for each entry whose path has a non-empty
\* piece, with the entry's kind and help and with the pieces joined by single
\* spaces for its string (no space at either end, no "."); the entries are
\* those below the current class, so each of its child classes with a plain
\* name is a candidate under that name alone.
C19_TreeItems ==
    (ret.call = "create_tree_completion_items") =>
        LET entries == structure(cmdr, FALSE)
            kept == SelectSeq(entries, LAMBDA e : Squeeze(e.path) # <<>>)
            here == SubAt(cmdr.root, cmdr.current)
        IN  /\ Len(ret.value) = Len(kept)
            /\ \A i \in 1..Len(kept) :
                  LET str == ret.value[i].completestr IN
                  /\ str = Squeeze(kept[i].path)
                  /\ ret.value[i].itemtype = kept[i].itemtype
                  /\ ret.value[i].help_msg = kept[i].help_msg
                  /\ str # <<>>
                  /\ str[1] # " " /\ str[Len(str)] # " "
                  /\ ~Contains(str, <<".">>) /\ ~Contains(str, <<" ", " ">>)
            /\ \A c \in 1..Len(here.classes) :
                  (here.classes[c].name # <<>>
                      /\ ~Contains(here.classes[c].name, <<".">>)) =>
                    \E i \in 1..Len(ret.value) :
                        /\ ret.value[i].completestr = here.classes[c].name
                        /\ ret.value[i].itemtype = "Class"

\* The call was made below the root; the entry of a class there was left out
\* and the action of that class is a candidate.
C19_Witness ==
    /\ ret.call = "create_tree_completion_items"
    /\ cmdr.current # <<>>
    /\ Len(ret.value) = 1
    /\ Len(structure(cmdr, FALSE)) = 2
    /\ ret.value[1].itemtype = "Action"

\* Every name below the root of the tree sc is non-empty and has no "." in it.
PlainTree(sc) == \A n \in NamesBelow(sc) : n # <<>> /\ ~Contains(n, <<".">>)

\* The paths, from the root, of the actions of the class at pos and of the
\* classes below it.
ActionPathsBelow(rt, pos) ==
    UNION { { JoinDot(ChainNames(rt, q)) \o <<".", ".">> \o SubAt(rt, q).actions[i].name :
                i \in 1..Len(SubAt(rt, q).actions) } :
            q \in { p \in Positions(rt) :
                      Len(p) >= Len(pos) /\ SubSeq(p, 1, Len(pos)) = pos } }

\* C20, on the trees whose names are non-empty and have no "." in them (where
\* every node has a path of its own): create_action_completion_items returns
\* one ActionMatch for each action of the current class and of the classes
\* below it, and none for any other action.
C20_ActionItemsOfSubtree ==
    (ret.call = "create_action_completion_items" /\ PlainTree(cmdr.root)) =>
        /\ { ret.value[i].qualified_path : i \in 1..Len(ret.value) }
              = ActionPathsBelow(cmdr.root, cmdr.current)
        /\ Len(ret.value) = Cardinality(ActionPathsBelow(cmdr.root, cmdr.current))

\* names, each followed by one space.
RECURSIVE SpaceAfterEach(_)
SpaceAfterEach(names) ==
    IF names = <<>> THEN <<>>
    ELSE Head(names) \o <<" ">> \o SpaceAfterEach(Tail(names))

\* The ActionMatch the action i of the class at q should give with the
\* cursor at pos, a position q lies at or below.
MatchOf(rt, pos, q, i) ==
    [completestr |->
        SpaceAfterEach(ChainNames(SubAt(rt, pos), SubSeq(q, Len(pos) + 1, Len(q)))
                       \o <<SubAt(rt, q).actions[i].name>>),
     qualified_path |->
        JoinDot(ChainNames(rt, q)) \o <<".", ".">> \o SubAt(rt, q).actions[i].name]

\* C21, on the trees whose names are non-empty and have no "." in them: every
\* ActionMatch returned by create_action_completion_items is that of an action
\* of the current class or of a class below it: its string is the class names
\* from the current position down to the owner and the action name, each
\* followed by one space, and its qualified_path is the action's path from
\* the root.
C21_ActionMatchStrings ==
    (ret.call = "create_action_completion_items" /\ PlainTree(cmdr.root)) =>
        \A m \in 1..Len(ret.value) :
            \E q \in Positions(cmdr.root) :
                /\ Len(q) >= Len(cmdr.current)
                /\ SubSeq(q, 1, Len(cmdr.current)) = cmdr.current
                /\ \E i \in 1..Len(SubAt(cmdr.root, q).actions) :
                      LET want == MatchOf(cmdr.root, cmdr.current, q, i) IN
                      /\ ret.value[m].info.completestr = want.completestr
                      /\ ret.value[m].qualified_path = want.qualified_path
                      /\ ret.value[m].info.itemtype = "Action"

\* Place of the last character of s that is one of chars, 0 when there is
\* none.
LastOf(s, chars) ==
    IF \E i \in 1..Len(s) : s[i] \in chars
    THEN CHOOSE i \in 1..Len(s) :
            s[i] \in chars /\ \A j \in (i + 1)..Len(s) : s[j] \notin chars
    ELSE 0

\* tree_completions has returned what it was given a line and items for.
Completed == ret.call = "tree_completions"

\* C22: tree_completions(line, items) does not panic; it returns the items
\* whose completion string starts with line, in the order of items, each with
\* its completion string from the character after the last space of line on:
\* the whole string when line has no space.
C22_TreeCompletions ==
    Completed =>
        LET l == ret.value.line
            kept == SelectSeq(ret.value.items,
                        LAMBDA x : Len(x.completestr) >= Len(l)
                                   /\ \A i \in 1..Len(l) : x.completestr[i] = l[i])
            out == ret.value.out
        IN  /\ ~out.panic
            /\ Len(out.value) = Len(kept)
            /\ \A j \in 1..Len(kept) :
                  /\ out.value[j][2] = kept[j]
                  /\ out.value[j][1] =
                        [i \in 1..(Len(kept[j].completestr) - LastOf(l, {" "})) |->
                            kept[j].completestr[i + LastOf(l, {" "})]]

C22_Witness ==
    /\ Completed
    /\ LastOf(ret.value.line, {" "}) \in 1..(Len(ret.value.line) - 1)
    /\ Len(ret.value.items) = 2
    /\ Len(ret.value.out.value) = 1
    /\ ret.value.out.value[1][2] = ret.value.items[2]
    /\ ret.value.out.value[1][1] = <<"b", " ">>

\* C23: at every position of every Commander, tree_completions of the empty
\* line over the items of create_tree_completion_items returns as many
\* results as there are items, in their order, each with the item's whole
\* completion string.
C23_EmptyLineKeepsAll ==
    (Completed /\ stage = "returned" /\ Running) =>
        LET items == create_tree_completion_items(cmdr)
            out == ret.value.out
        IN  /\ ret.value.line = <<>>
            /\ ~out.panic
            /\ Len(out.value) = Len(items)
            /\ \A i \in 1..Len(items) :
                  /\ out.value[i][1] = items[i].completestr
                  /\ out.value[i][2] = items[i]

C23_Witness ==
    /\ Completed
    /\ Running
    /\ cmdr.current # <<>>
    /\ Len(ret.value.out.value) = 2
    /\ Len(ret.value.out.value[2][1]) > Len(ret.value.out.value[1][1])

\* C24: word_break_start(s, breakchars) is the index just after the last
\* character of s that is a break character: 0 when s has none (the empty s
\* too), len(s) when the last character is one; it lies in 0..=len(s).
C24_WordBreakStart ==
    ret.call = "word_break_start" =>
        LET s == ret.value.s
            chars == ret.value.word_break_ch
            got == ret.value.start
        IN  /\ got = LastOf(s, chars)
            /\ got \in 0..Len(s)
            /\ (\A i \in 1..Len(s) : s[i] \notin chars) => got = 0
            /\ (s # <<>> /\ s[Len(s)] \in chars) => got = Len(s)

C24_Witness ==
    /\ ret.call = "word_break_start"
    /\ ret.value.word_break_ch = {" ", "."}
    /\ ret.value.s = <<".", " ", "a">>
    /\ ret.value.start = 2

\* C25: the words of a call are resolved after case folding, each at the
\* position the class names before it lead to: a reserved word is never taken
\* for a class or an action, a word that names a child class is taken as that
\* class, and the first word that names no child class gives the result: Help,
\* Cancel or Exit for a reserved word, else Action when it names an action of
\* the class reached, else Unrecognized.
C25_WordPrecedence ==
    Returned =>
        /\ \A i \in 1..LastWalk.k : to_lowercase(words[i]) \notin ReservedWords
        /\ ~HasStop => result.kind = "Class"
        /\ HasStop =>
              LET lwr == to_lowercase(StopWord) IN
              result.kind =
                IF lwr = <<"h", "e", "l", "p">> THEN "Help"
                ELSE IF lwr \in { <<"c", "a", "n", "c", "e", "l">>, <<"c">> }
                THEN "Cancel"
                ELSE IF lwr = <<"e", "x", "i", "t">> THEN "Exit"
                ELSE IF NamesAction(StopClass, StopWord) THEN "Action"
                ELSE "Unrecognized"

C25_Witness ==
    /\ Returned
    /\ LastWalk.k = 1
    /\ start.class # <<>>
    /\ HasStop
    /\ StopWord = <<"H", "e", "l", "p">>
    /\ result.kind = "Help"

\* C26: the same line given at the same position of the same tree with the
\* other value of colourise returns the same LineResult, calls the same
\* action with the same arguments or none, and leaves the same current
\* position and path.
C26_ColourOnlyInOutput ==
    Returned =>
        LET o == parse_line(StartCmdr, line, ~colourise) IN
        /\ o.result = result
        /\ o.calls = calls
        /\ o.cmdr.current = cmdr.current
        /\ o.cmdr.path = cmdr.path

C26_Witness ==
    /\ Returned
    /\ colourise
    /\ result.kind = "Unrecognized"
    /\ idx = 2
    /\ writer # parse_line(StartCmdr, line, FALSE).writer

\* C29: a call takes the words from the left, one after the other, up to the
\* first that is no class name and no further: the words after it change
\* neither the result, the output nor the cursor, and reach an action only as
\* its arguments; the call has one result, and it calls a closure, once,
\* exactly when the result is Action.
C29_OneOutcomePerCall ==
    Returned =>
        /\ idx = (IF HasStop THEN LastWalk.k + 1 ELSE Len(words))
        /\ result.kind \in {"Help", "Cancel", "Exit", "Class", "Action", "Unrecognized"}
        /\ Len(calls) <= 1
        /\ (Len(calls) = 1) <=> (result.kind = "Action")
        /\ \A c \in 1..Len(calls) :
              /\ calls[c].arguments = SubSeq(words, idx + 1, Len(words))
              /\ result.r = <<calls[c].returned>>
        /\ LET o == parse_loop(StartCmdr, SubSeq(words, 1, idx), 0, start.class,
                                start.path, colourise)
            IN  /\ o.cmdr = cmdr
                /\ o.result.kind = result.kind
                /\ o.writer = writer
                /\ Len(o.calls) = Len(calls)
                /\ o.idx = idx

C29_Witness ==
    /\ Returned
    /\ LastWalk.k = 1
    /\ result.kind = "Action"
    /\ idx = 2
    /\ Len(words) = 4
    /\ Len(calls) = 1
    /\ Len(calls[1].arguments) = 2

\* A written line without its colour codes.
Plain(ln) ==
    SelectSeq(ln, LAMBDA piece : piece \notin {"ESC[93m", "ESC[95m", "ESC[0m"})

\* The line of the help listing for a class or an action.
ItemLine(item) == <<"\t">> \o item.name \o <<" -- ", item.help>>

\* C30: a call that returns Help has written, after the three lines of the
\* reserved words, the listing of the class its leading class names lead to:
\* "Classes:" and a line for each child class in declaration order when there
\* is one, then "Actions:" and a line for each action in declaration order
\* when there is one, each line with the name and the help text; current
\* position and path are those of call entry.
C30_HelpListsWorkingClass ==
    (Returned /\ result.kind = "Help") =>
        LET nc == Len(StopClass.classes)
            na == Len(StopClass.actions)
            cs == IF nc > 0 THEN nc + 1 ELSE 0
            as == IF na > 0 THEN na + 1 ELSE 0
        IN  /\ cmdr.current = start.class
            /\ cmdr.path = start.path
            /\ Len(writer) = 3 + cs + as
            /\ nc > 0 => Plain(writer[4]) = <<"Classes:">>
            /\ \A i \in 1..nc :
                  Plain(writer[4 + i]) = ItemLine(StopClass.classes[i])
            /\ na > 0 => Plain(writer[4 + cs]) = <<"Actions:">>
            /\ \A i \in 1..na :
                  Plain(writer[4 + cs + i]) = ItemLine(StopClass.actions[i])
            /\ \A i \in 1..3 : Plain(writer[i]) \notin { <<"Classes:">>, <<"Actions:">> }

C30_Witness ==
    /\ Returned
    /\ result.kind = "Help"
    /\ start.class = <<>>
    /\ LastWalk.k = 1
    /\ Len(StopClass.classes) = 0
    /\ Len(StopClass.actions) = 1
    /\ Len(writer) = 5

\* C27: no call of parse_line, structure or a completion function changes the
\* tree below the Commander's root: its classes and actions, their names,
\* help texts and order stay those into_commander returned.
C27_TreeNeverChanges ==
    [][Running => (cmdr'.err = "None" /\ cmdr'.root = cmdr.root)]_vars

C27_Witness ==
    /\ Running
    /\ cmdr.current # <<>>
    /\ op.kind = "parse_line"
    /\ ret.call = "create_action_completion_items"
    /\ Len(ret.value) > 0

\* C28: at no time are two threads inside the closure of the Action, and the
\* thread inside it is the one that holds the mutex.
C28_OneClosureAtATime ==
    /\ \A t, u \in Threads :
          (threads[t].pc = "closure" /\ threads[u].pc = "closure") => t = u
    /\ \A t \in Threads : threads[t].pc = "closure" <=> mutex.holder = t

C28_Witness ==
    /\ threads[1].pc = "closure"
    /\ threads[2].pc = "lock"
    /\ threads[3].pc = "lock"
    /\ threads[2].made = 1

\* The name is no reserved word and no class or action of the scope sc
\* itself has it, whatever sc, the scopes around it and the classes below
\* its children are called.
FreeIn(name, sc) ==
    /\ to_lowercase(name) \notin ReservedWords
    /\ \A i \in 1..Len(sc.classes) :
          to_lowercase(sc.classes[i].name) # to_lowercase(name)
    /\ \A i \in 1..Len(sc.actions) :
          to_lowercase(sc.actions[i].name) # to_lowercase(name)

\* C31: begin_class and add_action on a chain without error succeed for
\* every name that is no reserved word and is not the name of a class or an
\* action of the open scope, also when the open scope, a scope around it, the
\* root or something inside a closed class has that name: begin_class opens
\* a scope of that name inside the open one, add_action adds the action to it.
C31_NamesPerScope ==
    (stage = "builder" /\ op.kind \in {"begin_class", "add_action"}
        /\ before.err = "None" /\ FreeIn(op.name, before.current)) =>
        /\ builder.err = "None"
        /\ op.kind = "begin_class" =>
              /\ builder.parents = Append(before.parents, before.current)
              /\ builder.current.name = to_lowercase(op.name)
              /\ builder.current.classes = <<>>
              /\ builder.current.actions = <<>>
        /\ op.kind = "add_action" =>
              /\ builder.parents = before.parents
              /\ builder.current.classes = before.current.classes
              /\ Len(builder.current.actions) = Len(before.current.actions) + 1
              /\ builder.current.actions[Len(builder.current.actions)].name =
                    to_lowercase(op.name)

C31_Witness ==
    /\ stage = "builder"
    /\ op.kind = "begin_class"
    /\ builder.err = "None"
    /\ Len(builder.parents) = 2
    /\ builder.parents[1].name = builder.current.name
    /\ builder.parents[2].name = builder.current.name
    /\ builder.current.name # <<>>

\* The path, from the root, of the class at pos: empty at the root.
PathTo(rt, pos) == JoinDot(ChainNames(rt, pos))

\* The positions at or below pos.
AtOrBelow(rt, pos) ==
    { q \in Positions(rt) : Len(q) >= Len(pos) /\ SubSeq(q, 1, Len(pos)) = pos }

\* The (path, kind) pairs, paths from the root, of the classes below the class
\* at pos and of the actions of that class and of the classes below it.
EntriesUnder(rt, pos) ==
    { <<PathTo(rt, q), "Class">> : q \in AtOrBelow(rt, pos) \ { pos } }
    \cup UNION { { <<PathTo(rt, q) \o <<".", ".">> \o SubAt(rt, q).actions[i].name,
                     "Action">> : i \in 1..Len(SubAt(rt, q).actions) } :
                 q \in AtOrBelow(rt, pos) }

\* An entry of structure(false) with its path made to start at the root: p.q
\* for the class q, p..a for the action ..a of the current class and p.c..a
\* for the action c..a of a class below it.
FromRoot(e) ==
    LET p == PathTo(cmdr.root, cmdr.current) IN
    IF cmdr.current = <<>> THEN e
    ELSE IF e.itemtype = "Action" /\ starts_with(e.path, <<".", ".">>)
    THEN [e EXCEPT !.path = p \o @]
    ELSE [e EXCEPT !.path = p \o <<".">> \o @]

\* C32: wherever the cursor is, the entries of structure(false), their paths
\* made to start at the root, are the entries of structure(true) for the
\* classes below the current class and the actions of it and of them, kind
\* and help text the same, one for one; at the root the two are equal.
C32_LocalAndRootStructure ==
    (StructureReturned /\ ~ret.from_root) =>
        LET local == ret.value
            all == structure(cmdr, TRUE)
            under == { i \in 1..Len(all) :
                         <<all[i].path, all[i].itemtype>>
                            \in EntriesUnder(cmdr.root, cmdr.current) }
        IN  /\ \A i \in 1..Len(local) :
                  \E j \in under : all[j] = FromRoot(local[i])
            /\ \A j \in under :
                  \E i \in 1..Len(local) : all[j] = FromRoot(local[i])
            /\ Len(local) = Cardinality(under)
            /\ cmdr.current = <<>> => local = all

\* The names of the classes from the class at pos, it left out, down to the
\* class at q, a position at or below pos.
NamesDown(rt, pos, q) ==
    ChainNames(SubAt(rt, pos), SubSeq(q, Len(pos) + 1, Len(q)))

\* C33: wherever the cursor is, parse_line there accepts every candidate of
\* create_tree_completion_items: the string of a Class candidate is the names
\* down to a class below the cursor, and parse_line of it returns Class with
\* the cursor at that class; the string of an Action candidate is the names
\* down to the owner of an action and the action's name, and parse_line of it
\* returns Action having called that action with no arguments.
C33_CandidatesAccepted ==
    (ret.call = "create_tree_completion_items") =>
        \A m \in 1..Len(ret.value) :
            LET cand == ret.value[m]
                o == parse_line(cmdr, cand.completestr, TRUE)
            IN  IF cand.itemtype = "Class"
                THEN \E q \in AtOrBelow(cmdr.root, cmdr.current) \ { cmdr.current } :
                        /\ cand.completestr =
                              join_space(NamesDown(cmdr.root, cmdr.current, q))
                        /\ o.result.kind = "Class"
                        /\ o.cmdr.current = q
                ELSE \E q \in AtOrBelow(cmdr.root, cmdr.current) :
                        \E i \in 1..Len(SubAt(cmdr.root, q).actions) :
                            /\ cand.completestr =
                                  join_space(NamesDown(cmdr.root, cmdr.current, q)
                                      \o <<SubAt(cmdr.root, q).actions[i].name>>)
                            /\ o.result.kind = "Action"
                            /\ Len(o.calls) = 1
                            /\ o.calls[1].owner = q
                            /\ o.calls[1].action = i
                            /\ o.calls[1].arguments = <<>>

\* s without its last character.
DropLast(s) == SubSeq(s, 1, Len(s) - 1)

\* C34, on the trees whose names are non-empty and have no "." in them:
\* wherever the cursor is, the strings of create_action_completion_items,
\* each ending in one space and taken without it, are the strings of the
\* Action candidates of create_tree_completion_items.
C34_ActionCandidatesAgree ==
    (ret.call = "create_action_completion_items" /\ PlainTree(cmdr.root)) =>
        LET items == create_tree_completion_items(cmdr) IN
        /\ \A m \in 1..Len(ret.value) :
              LET str == ret.value[m].info.completestr IN
              str # <<>> /\ str[Len(str)] = " "
        /\ { DropLast(ret.value[m].info.completestr) : m \in 1..Len(ret.value) }
              = { items[i].completestr :
                    i \in { k \in 1..Len(items) : items[k].itemtype = "Action" } }

\* C35: every class below the root is reached from the root by one parse_line
\* of the names of the classes down to it, joined by spaces: the call returns
\* Class and leaves the cursor at that class; and wherever the cursor is, one
\* parse_line of cancel returns Cancel and leaves the Commander as
\* into_commander returned it.
C35_EveryClassReachable ==
    Running =>
        /\ \A q \in Positions(cmdr.root) \ { <<>> } :
              LET o == parse_line(Rewound, join_space(ChainNames(cmdr.root, q)), FALSE)
              IN  /\ o.result.kind = "Class"
                  /\ o.cmdr.current = q
                  /\ o.cmdr.path = DotJoin(cmdr.root.name, ChainNames(cmdr.root, q))
        /\ LET o == parse_line(cmdr, <<"c", "a", "n", "c", "e", "l">>, FALSE)
            IN  /\ o.result.kind = "Cancel"
                /\ o.cmdr = Rewound

\* The members of a sequence, and whether it has none twice.
Members(seq) == { seq[i] : i \in 1..Len(seq) }
NoneTwice(seq) == \A i, j \in 1..Len(seq) : seq[i] = seq[j] => i = j

\* A structure call is running or has just returned.
InStructure ==
    stage = "structure" \/ (stage = "returned" /\ ret.call = "structure")

\* The classes below the class the running structure call starts from.
ToVisit ==
    LET at == IF traversal.from_root THEN <<>> ELSE cmdr.current IN
    AtOrBelow(cmdr.root, at) \ { at }

\* While structure runs no class is pushed twice or popped twice, the classes
\* pushed lie below the class it started from and those on the stack are the
\* ones pushed and not yet popped; when it returns the stack is empty and the
\* classes pushed, and popped, are all those below the class it started from.
\* A parse_line call that has returned has taken at least one word and no
\* more words than its line has.
WalkSafe ==
    /\ InStructure =>
          /\ NoneTwice(traversal.pushed)
          /\ NoneTwice(traversal.popped)
          /\ Members(traversal.pushed) \subseteq ToVisit
          /\ { traversal.stack[i].at : i \in 1..Len(traversal.stack) }
                = Members(traversal.pushed) \ Members(traversal.popped)
          /\ Len(traversal.stack) = Len(traversal.pushed) - Len(traversal.popped)
    /\ (stage = "returned" /\ ret.call = "structure") =>
          /\ traversal.stack = <<>>
          /\ Members(traversal.pushed) = ToVisit
          /\ Members(traversal.popped) = ToVisit
          /\ ret.value = structure(cmdr, traversal.from_root)
    /\ (stage = "returned" /\ result.kind # "None") =>
          /\ idx >= 1
          /\ idx <= Len(words)
          /\ Len(words) <= Len(line) + 1

\* C36: a structure call that has begun returns, with its stack empty, after
\* it has pushed and popped each class below the one it started from once
\* and no other; parse_line returns having taken no more words than the line
\* has.
C36_TraversalTerminates ==
    /\ []WalkSafe
    /\ (stage = "structure") ~> (stage = "returned" /\ ret.call = "structure")

C36_Witness ==
    /\ stage = "returned"
    /\ ret.call = "structure"
    /\ traversal.from_root
    /\ cmdr.current # <<>>
    /\ Len(traversal.popped) = 2
    /\ Len(traversal.popped[2]) = 2
    /\ traversal.stack = <<>>

====
